---------------------------- MODULE Spec2Model ----------------------------
(***************************************************************************)
(* goDiffIt: two inputs are read line by line, every line is normalized to *)
(* at most one token, the tokens of each input form a set, and one of four *)
(* set operations is computed on the two sets (cmd/root.go).               *)
(*                                                                         *)
(* A Go string is modelled as a sequence of characters, each character a   *)
(* one-letter TLA+ string, so that trimming, searching and cutting are     *)
(* computed position by position as the strings package does.              *)
(***************************************************************************)
EXTENDS Integers, Sequences, FiniteSets

(***************************************************************************)
(* Bounds of the model.                                                    *)
(***************************************************************************)
\* longest raw line, in characters, of the one-line inputs of SpecNorm
MaxLen == 3
\* most lines in one input file of Spec
MaxLines == 2

(***************************************************************************)
(* Characters.                                                             *)
(***************************************************************************)
Chars == {"a", "A", "b", ",", ".", " "}

\* unicode.IsSpace, on the characters of the model
IsSpace(c) == c = " "

\* unicode.ToLower, on the characters of the model
ToLowerChar(c) == IF c = "A" THEN "a" ELSE c

Min(S) == CHOOSE x \in S : \A y \in S : x <= y
Max(S) == CHOOSE x \in S : \A y \in S : y <= x

(***************************************************************************)
(* The functions of package strings that fileToSet calls.                  *)
(***************************************************************************)
\* strings.TrimSpace that leaves the string as it is
TrimSpaceNone(s) == s

\* strings.TrimSpace: the string without its leading and trailing white space
TrimSpace(s) ==
    LET keep == {i \in 1..Len(s) : ~IsSpace(s[i])}
    IN  IF keep = {} THEN <<>> ELSE SubSeq(s, Min(keep), Max(keep))

\* strings.ToLower
RECURSIVE ToLower(_)
ToLower(s) ==
    IF s = <<>> THEN <<>> ELSE <<ToLowerChar(Head(s))>> \o ToLower(Tail(s))

\* strings.Index, 1-based: the position of the first occurrence of sep in s,
\* 0 when there is none (Go: -1). The empty string occurs at the start.
Index(s, sep) ==
    LET at == {i \in 1..(Len(s) - Len(sep) + 1) :
                   SubSeq(s, i, i + Len(sep) - 1) = sep}
    IN  IF at = {} THEN 0 ELSE Min(at)

\* strings.Contains
Contains(s, sub) == Index(s, sub) # 0

\* strings.Split(s, sep)[0]. An empty sep splits s after each character, so
\* the first element is the first character; a sep that does not occur gives
\* the one-element slice [s]. (Split("", "") is empty and [0] would panic:
\* fileToSet never gets there, its line is non-empty when the delimiter is
\* looked for, and "." is the only other separator.)
SplitFirst(s, sep) ==
    IF sep = <<>>
    THEN IF s = <<>> THEN <<>> ELSE <<s[1]>>
    ELSE IF Index(s, sep) = 0 THEN s ELSE SubSeq(s, 1, Index(s, sep) - 1)

HasPrefix(s, p) == Len(p) <= Len(s) /\ SubSeq(s, 1, Len(p)) = p
HasSuffix(s, p) == Len(p) <= Len(s) /\ SubSeq(s, Len(s) - Len(p) + 1, Len(s)) = p

\* strings.TrimPrefix: s without the leading p, once, when s starts with p
TrimPrefix(s, p) == IF HasPrefix(s, p) THEN SubSeq(s, Len(p) + 1, Len(s)) ELSE s

\* strings.TrimSuffix: s without the trailing p, once, when s ends with p
TrimSuffix(s, p) == IF HasSuffix(s, p) THEN SubSeq(s, 1, Len(s) - Len(p)) ELSE s

(***************************************************************************)
(* Extraction patterns. A compiled pattern is a fixed-length sequence of   *)
(* elements, each a literal character or AnyChar (the regexp "."), with at *)
(* most one capture group over the elements gfrom..gto. A nil pattern      *)
(* (cfg.extract == nil) has set = FALSE.                                   *)
(***************************************************************************)
AnyChar == "ANY"

NilRegexp == [set |-> FALSE, elems |-> <<>>, groups |-> 0, gfrom |-> 0, gto |-> 0]

\* a(.)   one capture group
ReGroup == [set |-> TRUE, elems |-> <<"a", AnyChar>>, groups |-> 1, gfrom |-> 2, gto |-> 2]
\* .,     no capture group; the match holds a comma
ReComma == [set |-> TRUE, elems |-> <<AnyChar, ",">>, groups |-> 0, gfrom |-> 0, gto |-> 0]
\* A      no capture group; an upper-case literal
ReUpper == [set |-> TRUE, elems |-> <<"A">>, groups |-> 0, gfrom |-> 0, gto |-> 0]

Patterns == {ReGroup, ReComma, ReUpper}

MatchAt(re, s, i) ==
    \A k \in 1..Len(re.elems) :
        re.elems[k] = AnyChar \/ re.elems[k] = s[i + k - 1]

\* (*Regexp).FindStringSubmatch: nil (here <<>>) when s has no match, else
\* the leftmost match followed by the text of each capture group
FindStringSubmatch(re, s) ==
    LET at == {i \in 1..(Len(s) - Len(re.elems) + 1) : MatchAt(re, s, i)}
    IN  IF at = {} THEN <<>>
        ELSE LET full == SubSeq(s, Min(at), Min(at) + Len(re.elems) - 1)
             IN  IF re.groups = 0 THEN <<full>>
                 ELSE <<full, SubSeq(full, re.gfrom, re.gto)>>

(***************************************************************************)
(* The body of the scan loop of fileToSet: one raw line gives a token or   *)
(* nothing.                                                                *)
(***************************************************************************)
NoToken == [ok |-> FALSE, tok |-> <<>>]
Token(t) == [ok |-> TRUE, tok |-> t]

\* ExtractOrSplit with the TrimSpace calls of lines 127, 130 and 136 left out
ExtractOrSplitNoTrim(line, c) ==
    IF c.extract.set
    THEN LET matches == FindStringSubmatch(c.extract, line)
         IN  IF Len(matches) > 1 THEN Token(matches[2])
             ELSE IF Len(matches) = 1 THEN Token(matches[1])
             ELSE NoToken
    ELSE IF Contains(line, c.delimiter)
         THEN Token(SplitFirst(line, c.delimiter))
         ELSE Token(line)

\* ExtractOrSplit with the "else" of line 135 lost: the delimiter cut is
\* applied to the extracted value too
ExtractThenSplit(line, c) ==
    LET cut(l) == IF Contains(l, c.delimiter)
                  THEN TrimSpace(SplitFirst(l, c.delimiter)) ELSE l
    IN  IF c.extract.set
        THEN LET matches == FindStringSubmatch(c.extract, line)
             IN  IF Len(matches) > 1 THEN Token(cut(TrimSpace(matches[2])))
                 ELSE IF Len(matches) = 1 THEN Token(cut(TrimSpace(matches[1])))
                 ELSE NoToken
        ELSE Token(cut(line))

\* lines 122-137: the extraction pattern, else the delimiter
ExtractOrSplit(line, c) ==
    IF c.extract.set
    THEN LET matches == FindStringSubmatch(c.extract, line)
         IN  IF Len(matches) > 1 THEN Token(TrimSpace(matches[2]))
             ELSE IF Len(matches) = 1 THEN Token(TrimSpace(matches[1]))
             ELSE NoToken
    ELSE IF Contains(line, c.delimiter)
         THEN Token(TrimSpace(SplitFirst(line, c.delimiter)))
         ELSE Token(line)

\* lines 138-146: the FQDN cut, then the prefix and the suffix
StripAndTrim(line, c) ==
    LET l1 == IF c.ignoreFQDN THEN TrimSpace(SplitFirst(line, <<".">>)) ELSE line
        l2 == IF c.trimPrefix # <<>> THEN TrimPrefix(l1, c.trimPrefix) ELSE l1
    IN  IF c.trimSuffix # <<>> THEN TrimSuffix(l2, c.trimSuffix) ELSE l2

\* NormalizeLine with the case folding of lines 119-121 moved behind the
\* extraction and the delimiter cut
NormalizeLineFoldLate(raw, c) ==
    LET l1 == TrimSpace(raw)
    IN  IF l1 = <<>> THEN NoToken
        ELSE LET l3 == ExtractOrSplit(l1, c)
             IN  IF ~l3.ok THEN NoToken
                 ELSE LET l2 == IF ~c.caseSensitive THEN ToLower(l3.tok) ELSE l3.tok
                          l4 == StripAndTrim(l2, c)
                      IN  IF l4 # <<>> THEN Token(l4) ELSE NoToken

\* NormalizeLine with the case folding of lines 119-121 applied to the first
\* character only
NormalizeLineFoldFirst(raw, c) ==
    LET l1 == TrimSpace(raw)
    IN  IF l1 = <<>> THEN NoToken
        ELSE LET l2 == IF ~c.caseSensitive
                       THEN <<ToLowerChar(Head(l1))>> \o Tail(l1) ELSE l1
                 l3 == ExtractOrSplit(l2, c)
             IN  IF ~l3.ok THEN NoToken
                 ELSE LET l4 == StripAndTrim(l3.tok, c)
                      IN  IF l4 # <<>> THEN Token(l4) ELSE NoToken

\* lines 115-149
NormalizeLine(raw, c) ==
    LET l1 == TrimSpace(raw)
    IN  IF l1 = <<>> THEN NoToken
        ELSE LET l2 == IF ~c.caseSensitive THEN ToLower(l1) ELSE l1
                 l3 == ExtractOrSplit(l2, c)
             IN  IF ~l3.ok THEN NoToken
                 ELSE LET l4 == StripAndTrim(l3.tok, c)
                      IN  IF l4 # <<>> THEN Token(l4) ELSE NoToken

\* AddLine that keeps the token of the last line only
AddLineLast(set, raw, c) ==
    LET r == NormalizeLine(raw, c)
    IN  IF r.ok THEN {r.tok} ELSE set

\* set.Add(line), line 148, after the loop body
AddLine(set, raw, c) ==
    LET r == NormalizeLine(raw, c)
    IN  IF r.ok THEN set \cup {r.tok} ELSE set

(***************************************************************************)
(* The set operations of hashset.Set that RunE calls.                      *)
(***************************************************************************)
\* Intersection walks the smaller set and keeps what the other one holds
HsIntersection(A, B) ==
    IF Cardinality(A) <= Cardinality(B)
    THEN {x \in A : x \in B}
    ELSE {x \in B : x \in A}

\* Union adds the items of both sets to a new set
HsUnion(A, B) == A \cup B

\* Difference keeps the items of the receiver that the other set lacks
HsDifference(A, B) == {x \in A : x \notin B}

(***************************************************************************)
(* The reporter: toSortedSlice, printJSON, printCSV, printSet.             *)
(***************************************************************************)
\* the byte of a character, which is what the comparison of strings looks at
Code(c) ==
    CASE c = " " -> 32
      [] c = "," -> 44
      [] c = "." -> 46
      [] c = "A" -> 65
      [] c = "a" -> 97
      [] c = "b" -> 98

\* s < t of two Go strings
RECURSIVE Less(_, _)
Less(s, t) ==
    IF t = <<>> THEN FALSE
    ELSE IF s = <<>> THEN TRUE
    ELSE IF s[1] = t[1] THEN Less(Tail(s), Tail(t))
    ELSE Code(s[1]) < Code(t[1])

\* slices.Sorted with the order turned round
RECURSIVE SortedDescending(_)
SortedDescending(S) ==
    IF S = {} THEN <<>>
    ELSE LET m == CHOOSE x \in S : \A y \in S : y = x \/ Less(y, x)
         IN  <<m>> \o SortedDescending(S \ {m})

\* slices.Sorted: the values in ascending order
RECURSIVE Sorted(_)
Sorted(S) ==
    IF S = {} THEN <<>>
    ELSE LET m == CHOOSE x \in S : \A y \in S : y = x \/ Less(x, y)
         IN  <<m>> \o Sorted(S \ {m})

\* toSortedSlice with the largest value first
toSortedSliceDescending(hs) == [isNil |-> hs = {}, elems |-> SortedDescending(hs)]

\* toSortedSlice: slices.Sorted collects into a nil slice, so the slice of an
\* empty set is nil
toSortedSlice(hs) == [isNil |-> hs = {}, elems |-> Sorted(hs)]

\* one line of output: the format it was printed with, the strings and the
\* numbers put into it, and the token when the line is a token
Line(fmt, strs, nums, tok) == [fmt |-> fmt, strs |-> strs, nums |-> nums, tok |-> tok]

\* fmt.Fprintln(output, element)
TokenLine(element) == Line("%s", <<>>, <<>>, element)

\* one write to the sink: the lines it holds and the error printSet returns
\* when it fails
Write(lines, onError) == [lines |-> lines, onError |-> onError]

\* the writes of a range over a sorted slice
TokenWrites(slice, onError) ==
    [i \in 1..Len(slice.elems) |-> Write(<<TokenLine(slice.elems[i])>>, onError)]

\* Percent with the digits after the first decimal cut off
PercentTruncated(overlap, size) == (1000 * overlap) \div size

\* %.1f of overlap / size * 100, in tenths of a percent
Percent(overlap, size) == (2000 * overlap + size) \div (2 * size)

\* the lines of a sequence of writes
RECURSIVE Flatten(_)
Flatten(ws) ==
    IF ws = <<>> THEN <<>> ELSE ws[1].lines \o Flatten(Tail(ws))

\* a map without keys
EmptyMap == [k \in {} |-> 0]

\* no JSON document
NoDoc ==
    [operation |-> "", fileA |-> "", fileB |-> "",
     results |-> EmptyMap, counts |-> EmptyMap]

\* encoding/json on a []string: null for a nil slice, the list otherwise
EncodeSlice(slice) == [null |-> slice.isNil, list |-> slice.elems]

\* printJSON, lines 178-191: the jsonOutput that is encoded
jsonOutput(r) ==
    LET keys == IF r.operation = "difference" THEN {"A-B", "B-A"} ELSE {r.operation}
        hs(k) == IF r.operation = "difference" /\ k = "B-A" THEN r.diffBA ELSE r.diffAB
    IN  [operation |-> r.operation, fileA |-> r.pathA, fileB |-> r.pathB,
         results |-> [k \in keys |-> EncodeSlice(toSortedSlice(hs(k)))],
         counts |-> [k \in keys |-> Cardinality(hs(k))]]

\* encoding/csv, fieldNeedsQuotes: a field with the delimiter in it or with a
\* space in front is written in quotes
CsvField(v) ==
    IF v # <<>> /\ (Contains(v, <<",">>) \/ IsSpace(v[1]))
    THEN <<"\"">> \o v \o <<"\"">>
    ELSE v

\* a row of printCSV: the label of the set, if any, and the value
CsvRow(label, v) == Line("csv", label, <<>>, CsvField(v))

\* printCSV, lines 207-242: the records given to the csv writer
CsvRecords(r) ==
    LET ab == toSortedSlice(r.diffAB).elems
        ba == toSortedSlice(r.diffBA).elems
    IN  IF r.operation = "difference"
        THEN <<Line("csv", <<"set", "value">>, <<>>, <<>>)>>
             \o [i \in 1..Len(ab) |-> CsvRow(<<"A-B">>, ab[i])]
             \o [i \in 1..Len(ba) |-> CsvRow(<<"B-A">>, ba[i])]
        ELSE <<Line("csv", <<"value">>, <<>>, <<>>)>>
             \o [i \in 1..Len(ab) |-> CsvRow(<<>>, ab[i])]

\* lines 279-293: the writes of the count mode
CountWrites(r) ==
    IF r.operation = "difference"
    THEN <<Write(<<Line("A-B: %d", <<>>, <<Cardinality(r.diffAB)>>, <<>>)>>,
                 "failed to write count"),
           Write(<<Line("B-A: %d", <<>>, <<Cardinality(r.diffBA)>>, <<>>)>>,
                 "failed to write count")>>
    ELSE <<Write(<<Line("%d", <<>>, <<Cardinality(r.diffAB)>>, <<>>)>>,
                 "failed to write count")>>

\* lines 296-330: the writes of the stats mode
StatsWrites(r) ==
    LET sizeA == Cardinality(r.setA)
        sizeB == Cardinality(r.setB)
        overlap == Cardinality(HsIntersection(r.setA, r.setB))
        onlyA == sizeA - overlap
        onlyB == sizeB - overlap
        w(l) == Write(<<l>>, "failed to write stats")
    IN  <<w(Line("File A: %d unique lines", <<>>, <<sizeA>>, <<>>)),
          w(Line("File B: %d unique lines", <<>>, <<sizeB>>, <<>>)),
          IF sizeA > 0 /\ sizeB > 0
          THEN w(Line("Overlap: %d (%.1f%% of A, %.1f%% of B)", <<>>,
                      <<overlap, Percent(overlap, sizeA), Percent(overlap, sizeB)>>,
                      <<>>))
          ELSE w(Line("Overlap: %d", <<>>, <<overlap>>, <<>>)),
          w(Line("Only in A: %d", <<>>, <<onlyA>>, <<>>)),
          w(Line("Only in B: %d", <<>>, <<onlyB>>, <<>>))>>

\* the operation names the switch of lines 334-345 knows
Operations == {"intersection", "union", "difference", "symmetric-difference"}

\* lines 334-343: the header of an operation
Header(r) ==
    CASE r.operation = "intersection" ->
            Line("Intersection of %s and %s:", <<r.pathA, r.pathB>>, <<>>, <<>>)
      [] r.operation = "union" ->
            Line("Union of %s and %s:", <<r.pathA, r.pathB>>, <<>>, <<>>)
      [] r.operation = "difference" ->
            Line("Difference of %s - %s:", <<r.pathA, r.pathB>>, <<>>, <<>>)
      [] r.operation = "symmetric-difference" ->
            Line("Symmetric difference of %s and %s:", <<r.pathA, r.pathB>>, <<>>, <<>>)

\* lines 357-361: an empty line and the header of the reverse direction, in
\* one write
ReverseHeader(r) ==
    <<Line("", <<>>, <<>>, <<>>),
      Line("Difference of %s - %s:", <<r.pathB, r.pathA>>, <<>>, <<>>)>>

\* lines 332-368: the writes of the text mode, once the operation is known
\* to have a header or to need none
TextWrites(r, c) ==
    (IF ~c.pipe THEN <<Write(<<Header(r)>>, "failed to write header")>> ELSE <<>>)
    \o TokenWrites(toSortedSlice(r.diffAB), "failed to write output")
    \o (IF r.operation = "difference" /\ ~c.pipe
        THEN <<Write(ReverseHeader(r), "failed to write header")>>
             \o TokenWrites(toSortedSlice(r.diffBA), "failed to write output")
        ELSE <<>>)

\* what a call of printSet leaves behind: the error it returns, the lines and
\* the document in the sink, whether the output file was made, and whether
\* a write to the sink has failed
Printed(err, out, doc, created, wfail) ==
    [err |-> err, out |-> out, doc |-> doc, created |-> created, wfail |-> wfail]

\* fmt.Fprint on a sink that takes every write or refuses the first one
Fprint(ws, created, sinkWrites) ==
    IF ws = <<>> \/ sinkWrites
    THEN Printed("", Flatten(ws), NoDoc, created, FALSE)
    ELSE Printed(ws[1].onError, <<>>, NoDoc, created, TRUE)

\* printJSON, lines 192-203: the encoder writes the whole document at once
printJSON(r, created, sinkWrites) ==
    IF sinkWrites
    THEN Printed("", <<>>, jsonOutput(r), created, FALSE)
    ELSE Printed("failed to encode JSON", <<>>, NoDoc, created, TRUE)

\* printCSV: the csv writer buffers the records, and the deferred Flush of
\* line 209 drops the error of the sink, which writer.Error() alone would tell
printCSV(r, created, sinkWrites) ==
    Printed("", IF sinkWrites THEN CsvRecords(r) ELSE <<>>, NoDoc, created, ~sinkWrites)

\* printSet with the count mode looked at before the format
printSetCountFirst(r, c, sinkCreates, sinkWrites) ==
    LET created == c.output # ""
    IN  IF c.output # "" /\ ~sinkCreates
        THEN Printed("failed to create output file", <<>>, NoDoc, FALSE, FALSE)
        ELSE IF c.count THEN Fprint(CountWrites(r), created, sinkWrites)
        ELSE IF c.format = "json" THEN printJSON(r, created, sinkWrites)
        ELSE IF c.format = "csv" THEN printCSV(r, created, sinkWrites)
        ELSE IF c.stats THEN Fprint(StatsWrites(r), created, sinkWrites)
        ELSE IF ~c.pipe /\ r.operation \notin Operations
        THEN Printed("invalid operation", <<>>, NoDoc, created, FALSE)
        ELSE Fprint(TextWrites(r, c), created, sinkWrites)

\* printSet, lines 250-369
printSet(r, c, sinkCreates, sinkWrites) ==
    LET created == c.output # ""
    IN  IF c.output # "" /\ ~sinkCreates
        THEN Printed("failed to create output file", <<>>, NoDoc, FALSE, FALSE)
        ELSE IF c.format = "json" THEN printJSON(r, created, sinkWrites)
        ELSE IF c.format = "csv" THEN printCSV(r, created, sinkWrites)
        ELSE IF c.count THEN Fprint(CountWrites(r), created, sinkWrites)
        ELSE IF c.stats THEN Fprint(StatsWrites(r), created, sinkWrites)
        ELSE IF ~c.pipe /\ r.operation \notin Operations
        THEN Printed("invalid operation", <<>>, NoDoc, created, FALSE)
        ELSE Fprint(TextWrites(r, c), created, sinkWrites)

\* hasDifferences without the secondary result
hasDifferencesPrimaryOnly(r) == Cardinality(r.diffAB) > 0

\* hasDifferences, lines 159-161
hasDifferences(r) ==
    Cardinality(r.diffAB) > 0
        \/ (r.operation = "difference" /\ Cardinality(r.diffBA) > 0)

\* the exit codes, lines 75-79
exitOK == 0
exitDiff == 1
exitError == 2

\* Execute, lines 485-496: the exit code of what RunE returned
ExitCode(e) ==
    IF e = "" THEN exitOK
    ELSE IF e = "differences found" THEN exitDiff
    ELSE exitError

\* regexp.Compile that takes every pattern
CompileAnything(p) ==
    CASE p = "a(.)" -> [ok |-> TRUE, re |-> ReGroup]
      [] p = ".," -> [ok |-> TRUE, re |-> ReComma]
      [] p = "A" -> [ok |-> TRUE, re |-> ReUpper]
      [] p = "a(" -> [ok |-> TRUE, re |-> NilRegexp]

\* regexp.Compile on the values of --extract that the runs give
Compile(p) ==
    CASE p = "a(.)" -> [ok |-> TRUE, re |-> ReGroup]
      [] p = ".," -> [ok |-> TRUE, re |-> ReComma]
      [] p = "A" -> [ok |-> TRUE, re |-> ReUpper]
      [] p = "a(" -> [ok |-> FALSE, re |-> NilRegexp]

\* the text a compiled pattern was given as
PatternText(re) ==
    IF re = NilRegexp THEN ""
    ELSE CHOOSE p \in {"a(.)", ".,", "A"} : Compile(p).re = re

(***************************************************************************)
(* Configurations and inputs.                                              *)
(***************************************************************************)
\* the flag values of a run of Spec
RunConfigs ==
    [caseSensitive : BOOLEAN, delimiter : {<<",">>}, extract : {NilRegexp},
     ignoreFQDN : {FALSE}, pipe : BOOLEAN,
     trimPrefix : {<<>>}, trimSuffix : {<<>>},
     format : {"text"}, count : {FALSE}, stats : {FALSE}, output : {""}]

\* the flag values of SpecNorm
NormConfigs ==
    [caseSensitive : BOOLEAN, delimiter : {<<",">>, <<"A">>, <<>>},
     extract : {NilRegexp} \cup Patterns,
     ignoreFQDN : BOOLEAN, pipe : {FALSE},
     trimPrefix : {<<>>, <<"a">>}, trimSuffix : {<<>>, <<"b">>},
     format : {"text"}, count : {FALSE}, stats : {FALSE}, output : {""}]

\* every string of at most n characters
RECURSIVE StringsUpTo(_)
StringsUpTo(n) ==
    IF n = 0 THEN {<<>>}
    ELSE LET shorter == StringsUpTo(n - 1)
         IN  shorter \cup {Append(s, c) : s \in shorter, c \in Chars}

\* the raw lines of the one-line inputs of SpecNorm
NormLines == StringsUpTo(MaxLen)

\* the flag values of SpecCase
CaseConfigs ==
    [caseSensitive : BOOLEAN, delimiter : {<<",">>, <<"A">>},
     extract : {NilRegexp, ReUpper},
     ignoreFQDN : BOOLEAN, pipe : {FALSE},
     trimPrefix : {<<>>, <<"a">>}, trimSuffix : {<<>>},
     format : {"text"}, count : {FALSE}, stats : {FALSE}, output : {""}]

\* the pairs of characters that differ in letter case at most
CharPairs == {cd \in Chars \X Chars : ToLowerChar(cd[1]) = ToLowerChar(cd[2])}

\* every pair of strings of at most n characters that differ in letter case
\* at most
RECURSIVE CasePairsUpTo(_)
CasePairsUpTo(n) ==
    IF n = 0 THEN {<< <<>>, <<>> >>}
    ELSE LET shorter == CasePairsUpTo(n - 1)
         IN  shorter \cup {<<Append(p[1], cd[1]), Append(p[2], cd[2])>> :
                               p \in shorter, cd \in CharPairs}

\* the two-line inputs of SpecCase
CasePairs == CasePairsUpTo(MaxLen)

\* the raw lines of the input files of Spec
RunLines == {<<"a">>, <<"A">>, <<"b">>, <<"a", ",", "A">>}

\* every file of at most n lines
RECURSIVE FilesUpTo(_)
FilesUpTo(n) ==
    IF n = 0 THEN {<<>>}
    ELSE LET shorter == FilesUpTo(n - 1)
         IN  shorter \cup {Append(f, l) : f \in shorter, l \in RunLines}

\* a line longer than bufio.MaxScanTokenSize, the limit of the scanner
LongLine == <<"LONG">>

\* the raw lines of the input files of SpecRun
FaultLines == {<<"a", "b">>, LongLine}

\* every file of at most n lines out of L
RECURSIVE FilesOf(_, _)
FilesOf(L, n) ==
    IF n = 0 THEN {<<>>}
    ELSE LET shorter == FilesOf(L, n - 1)
         IN  shorter \cup {Append(f, l) : f \in shorter, l \in L}

\* what os.Stat and os.Open find at a path
FileStats == {"ok", "missing", "unreadable"}

\* what the operating system has answered so far, before the first call: no
\* failure yet; faulty tells whether its calls may fail in this run
EnvOK ==
    [faulty |-> FALSE,
     stat |-> [A |-> "ok", B |-> "ok"], create |-> TRUE, write |-> TRUE,
     close |-> [A |-> TRUE, B |-> TRUE, sink |-> TRUE]]

\* the same, in a run in which the calls may fail
EnvFaulty == [EnvOK EXCEPT !.faulty = TRUE]

\* what os.Stat and os.Open may find at a path in environment e
StatOutcomes(e) == IF e.faulty THEN FileStats ELSE {"ok"}

\* whether a call of os.Create, of a write or of Close may succeed in
\* environment e
CallOutcomes(e) == IF e.faulty THEN BOOLEAN ELSE {TRUE}

\* the flag values of SpecRun: --format excludes --count and --stats (lines
\* 515-516)
FullConfigs ==
    {c \in [caseSensitive : {FALSE}, delimiter : {<<",">>}, extract : {NilRegexp},
            ignoreFQDN : {FALSE}, pipe : BOOLEAN,
            trimPrefix : {<<>>}, trimSuffix : {<<>>},
            format : {"text", "json", "csv"}, count : BOOLEAN, stats : BOOLEAN,
            output : {"", "out.txt"}] :
        c.format = "text" \/ (~c.count /\ ~c.stats)}

\* the config values printSet is called with in SpecPrint
PrintConfigs ==
    [caseSensitive : {TRUE}, delimiter : {<<",">>}, extract : {NilRegexp},
     ignoreFQDN : {FALSE}, pipe : BOOLEAN,
     trimPrefix : {<<>>}, trimSuffix : {<<>>},
     format : {"text", "json", "csv", "xml"}, count : BOOLEAN, stats : BOOLEAN,
     output : {"", "out.txt"}]

\* the tokens of the sets of SpecPrint
PrintTokens == {<<"A">>, <<"a">>, <<"b">>}

\* the values of --extract in SpecRun
ExtractFlags == {"", "a(.)", "a("}

\* --intersection, --union, --symmetric-difference: at most one is given
OpFlags ==
    {fl \in [intersection : BOOLEAN, union : BOOLEAN, symmetricDifference : BOOLEAN] :
        Cardinality({k \in {"intersection", "union", "symmetricDifference"} : fl[k]}) <= 1}

(***************************************************************************)
(* State.                                                                  *)
(***************************************************************************)
VARIABLES
    cfg,        \* the config built from the flags
    files,      \* the lines of input A and of input B
    pc,         \* where RunE is
    idx,        \* how many lines the scanner of the open input has delivered
    set,        \* the set fileToSet is building
    setA,       \* rs.fileSetA.set
    setB,       \* rs.fileSetB.set
    operation,  \* rs.operation
    diffAB,     \* rs.diffAB
    diffBA,     \* rs.diffBA
    extract,    \* the value of --extract
    env,        \* what the calls of the operating system have answered
    opened,     \* the inputs os.Open has opened
    err,        \* the error of the last call that returned one, "" for nil
    out,        \* the lines written to the sink
    doc,        \* the JSON document written to the sink
    created,    \* whether os.Create has made the output file
    exit,       \* the exit code, once the process has one
    handles,    \* the inputs whose file handle is open
    sink,       \* the sink of printSet: "none", "stdout", "file" or "closed"
    logged,     \* the handles whose Close failed, as the log records them
    wfail,      \* whether a write to the sink has failed
    refs        \* which set object each set variable points to, 0 for nil

\* the handles and the log
resources == <<handles, sink, logged, wfail>>

vars == <<cfg, files, pc, idx, set, setA, setB, operation, diffAB, diffBA,
          extract, env, opened, err, out, doc, created, exit, resources, refs>>

\* no hashset.New has been called yet
NoRefs ==
    [next |-> 1, set |-> 0, setA |-> 0, setB |-> 0, diffAB |-> 0, diffBA |-> 0,
     overlap |-> 0]

\* the set objects when both inputs have been read
TwoRefs ==
    [next |-> 3, set |-> 2, setA |-> 1, setB |-> 2, diffAB |-> 0, diffBA |-> 0,
     overlap |-> 0]

\* the set objects of results built with four calls of hashset.New
FourRefs ==
    [next |-> 5, set |-> 0, setA |-> 1, setB |-> 2, diffAB |-> 3, diffBA |-> 4,
     overlap |-> 0]

\* the variables of the reporter and of the exit, before they are touched
Untouched ==
    /\ opened = {}
    /\ err = ""
    /\ out = <<>>
    /\ doc = NoDoc
    /\ created = FALSE
    /\ exit = {}
    /\ handles = {}
    /\ sink = "none"
    /\ logged = {}
    /\ wfail = FALSE
    /\ refs = NoRefs

Init ==
    /\ cfg \in RunConfigs
    /\ files \in [A : FilesUpTo(MaxLines), B : FilesUpTo(MaxLines)]
    /\ pc = "start"
    /\ idx = 0
    /\ set = {}
    /\ setA = {}
    /\ setB = {}
    /\ operation = ""
    /\ diffAB = {}
    /\ diffBA = {}
    /\ extract = ""
    /\ env = EnvOK
    /\ Untouched

\* fileToSet is called on a one-line input A
InitNorm ==
    /\ cfg \in NormConfigs
    /\ files \in [A : {<<l>> : l \in NormLines}, B : {<<>>}]
    /\ pc = "openA"
    /\ idx = 0
    /\ set = {}
    /\ setA = {}
    /\ setB = {}
    /\ operation = ""
    /\ diffAB = {}
    /\ diffBA = {}
    /\ extract = PatternText(cfg.extract)
    /\ env = EnvOK
    /\ Untouched

\* fileToSet is called on an input A of two lines that differ in letter case
\* at most
InitCase ==
    /\ cfg \in CaseConfigs
    /\ files \in [A : CasePairs, B : {<<>>}]
    /\ pc = "openA"
    /\ idx = 0
    /\ set = {}
    /\ setA = {}
    /\ setB = {}
    /\ operation = ""
    /\ diffAB = {}
    /\ diffBA = {}
    /\ extract = PatternText(cfg.extract)
    /\ env = EnvOK
    /\ Untouched

\* the raw lines of the inputs of SpecBlank: empty, white space only, and one
\* with a letter
BlankLines == {<<>>, <<" ">>, <<" ", " ">>, <<" ", "a">>}

\* fileToSet is called on an input A of no line, or of lines most of which
\* are blank
InitBlank ==
    /\ cfg \in NormConfigs
    /\ files \in [A : FilesOf(BlankLines, MaxLines), B : {<<>>}]
    /\ pc = "openA"
    /\ idx = 0
    /\ set = {}
    /\ setA = {}
    /\ setB = {}
    /\ operation = ""
    /\ diffAB = {}
    /\ diffBA = {}
    /\ extract = PatternText(cfg.extract)
    /\ env = EnvOK
    /\ Untouched

\* a whole run, with inputs that may be missing, unreadable or hold a line
\* beyond the limit of the scanner, and a sink that may fail
InitRun ==
    /\ cfg \in FullConfigs
    /\ files \in [A : FilesOf(FaultLines, MaxLines), B : FilesOf(FaultLines, MaxLines)]
    /\ pc = "start"
    /\ idx = 0
    /\ set = {}
    /\ setA = {}
    /\ setB = {}
    /\ operation = ""
    /\ diffAB = {}
    /\ diffBA = {}
    /\ extract \in ExtractFlags
    /\ env = EnvFaulty
    /\ Untouched

\* the reporter on the results of any two sets: either RunE has read both
\* inputs and is about to compute, or printSet is called on results whose
\* operation is none of the four, as TestPrintSetInvalidOperation does
InitPrint ==
    /\ cfg \in PrintConfigs
    /\ files = [A |-> <<>>, B |-> <<>>]
    /\ idx = 0
    /\ set = {}
    /\ setA \in SUBSET PrintTokens
    /\ setB \in SUBSET PrintTokens
    /\ \/ /\ pc = "compute"
          /\ operation = ""
          /\ diffAB = {}
          /\ diffBA = {}
          /\ refs = TwoRefs
       \/ /\ pc = "print"
          /\ operation = "bogus"
          /\ diffAB \in {{}, setA}
          /\ diffBA = {}
          /\ refs = FourRefs
    /\ extract = ""
    /\ env = EnvFaulty
    /\ opened = {"A", "B"}
    /\ err = ""
    /\ out = <<>>
    /\ doc = NoDoc
    /\ created = FALSE
    /\ exit = {}
    /\ handles = {}
    /\ sink = "none"
    /\ logged = {}
    /\ wfail = FALSE

(***************************************************************************)
(* RunE, step by step.                                                     *)
(***************************************************************************)
\* lines 399-427: the config is built from the flag variables
NewConfig ==
    /\ pc = "start"
    /\ IF extract = ""
       THEN pc' = "openA" /\ UNCHANGED <<cfg, err>>
       ELSE IF Compile(extract).ok
       THEN /\ cfg' = [cfg EXCEPT !.extract = Compile(extract).re]
            /\ pc' = "openA"
            /\ UNCHANGED err
       ELSE /\ err' = "invalid extract regex"
            /\ pc' = "execute"
            /\ UNCHANGED cfg
    /\ UNCHANGED <<files, idx, set, setA, setB, operation, diffAB, diffBA,
                   extract, env, opened, out, doc, created, exit, resources, refs>>

\* hashset.New: the variable v points to a new set object
New(r, v) == [r EXCEPT ![v] = r.next, !.next = r.next + 1]

\* the deferred file.Close of lines 105-109 and output.Close of lines 259-263:
\* a failure is logged and nothing else
Closed(h, ok) == IF ok THEN logged ELSE logged \cup {h}

\* lines 430-436: RunE puts the name of the input in front of the error
FileError(f, msg) == "file " \o f \o ": " \o msg

\* Open without the os.Stat of lines 97-99: a missing file fails in os.Open
OpenNoStat(f) ==
    /\ pc = "open" \o f
    /\ \E st \in StatOutcomes(env) :
          /\ env' = [env EXCEPT !.stat[f] = st]
          /\ IF st \in {"missing", "unreadable"}
             THEN /\ err' = FileError(f, "failed to open file")
                  /\ pc' = "execute"
                  /\ UNCHANGED <<set, idx, opened, handles, refs>>
             ELSE /\ opened' = opened \cup {f}
                  /\ handles' = handles \cup {f}
                  /\ set' = {}
                  /\ refs' = New(refs, "set")
                  /\ idx' = 0
                  /\ pc' = "scan" \o f
                  /\ UNCHANGED err
    /\ UNCHANGED <<cfg, files, setA, setB, operation, diffAB, diffBA,
                   extract, out, doc, created, exit, sink, logged, wfail>>

\* fileToSet, lines 92-113: the input is opened and an empty set created,
\* unless os.Stat finds no file or os.Open fails
Open(f) ==
    /\ pc = "open" \o f
    /\ \E st \in StatOutcomes(env) :
          /\ env' = [env EXCEPT !.stat[f] = st]
          /\ IF st = "missing"
             THEN /\ err' = FileError(f, "file does not exist")
                  /\ pc' = "execute"
                  /\ UNCHANGED <<set, idx, opened, handles, refs>>
             ELSE IF st = "unreadable"
             THEN /\ err' = FileError(f, "failed to open file")
                  /\ pc' = "execute"
                  /\ UNCHANGED <<set, idx, opened, handles, refs>>
             ELSE /\ opened' = opened \cup {f}
                  /\ handles' = handles \cup {f}
                  /\ set' = {}
                  /\ refs' = New(refs, "set")
                  /\ idx' = 0
                  /\ pc' = "scan" \o f
                  /\ UNCHANGED err
    /\ UNCHANGED <<cfg, files, setA, setB, operation, diffAB, diffBA,
                   extract, out, doc, created, exit, sink, logged, wfail>>

\* ScanLine with a scanner that passes over a line beyond its limit
ScanLineSkipsLong(f) ==
    /\ pc = "scan" \o f
    /\ idx < Len(files[f])
    /\ idx' = idx + 1
    /\ set' = IF files[f][idx + 1] = LongLine
              THEN set
              ELSE AddLine(set, files[f][idx + 1], cfg)
    /\ UNCHANGED <<cfg, files, pc, err, setA, setB, operation, diffAB, diffBA,
                   extract, env, opened, out, doc, created, exit, resources, refs>>

\* ScanLine in a RunE that goes on to its next step after fileToSet has
\* returned the scan error
ScanLineGoesOn(f) ==
    /\ pc = "scan" \o f
    /\ idx < Len(files[f])
    /\ IF files[f][idx + 1] = LongLine
       THEN /\ err' = FileError(f, "failed to scan input")
            /\ pc' = IF f = "A" THEN "openB" ELSE "compute"
            /\ handles' = handles \ {f}
            /\ \E ok \in CallOutcomes(env) :
                  /\ env' = [env EXCEPT !.close[f] = ok]
                  /\ logged' = Closed(f, ok)
            /\ UNCHANGED <<idx, set>>
       ELSE /\ idx' = idx + 1
            /\ set' = AddLine(set, files[f][idx + 1], cfg)
            /\ UNCHANGED <<pc, err, handles, logged, env>>
    /\ UNCHANGED <<cfg, files, setA, setB, operation, diffAB, diffBA,
                   extract, opened, out, doc, created, exit, sink, wfail, refs>>

\* fileToSet, lines 114-153: one turn of the scan loop; on a line beyond its
\* limit the scanner stops with an error and fileToSet returns nil and
\* "failed to scan input", closing the file on its way out
ScanLine(f) ==
    /\ pc = "scan" \o f
    /\ idx < Len(files[f])
    /\ IF files[f][idx + 1] = LongLine
       THEN /\ err' = FileError(f, "failed to scan input")
            /\ pc' = "execute"
            /\ handles' = handles \ {f}
            /\ \E ok \in CallOutcomes(env) :
                  /\ env' = [env EXCEPT !.close[f] = ok]
                  /\ logged' = Closed(f, ok)
            /\ UNCHANGED <<idx, set>>
       ELSE /\ idx' = idx + 1
            /\ set' = AddLine(set, files[f][idx + 1], cfg)
            /\ UNCHANGED <<pc, err, handles, logged, env>>
    /\ UNCHANGED <<cfg, files, setA, setB, operation, diffAB, diffBA,
                   extract, opened, out, doc, created, exit, sink, wfail, refs>>

\* ReturnSet with a failure of file.Close returned as an error, as the
\* earlier fileToSet did
ReturnSetCloseError(f) ==
    /\ pc = "scan" \o f
    /\ idx = Len(files[f])
    /\ handles' = handles \ {f}
    /\ \E ok \in CallOutcomes(env) :
          /\ env' = [env EXCEPT !.close[f] = ok]
          /\ logged' = Closed(f, ok)
          /\ IF ~ok
             THEN /\ err' = FileError(f, "failed to close file")
                  /\ pc' = "execute"
                  /\ UNCHANGED <<setA, setB, refs>>
             ELSE /\ IF f = "A"
                     THEN setA' = set /\ pc' = "openB" /\ UNCHANGED setB
                     ELSE setB' = set /\ pc' = "compute" /\ UNCHANGED setA
                  /\ refs' = [refs EXCEPT !["set" \o f] = refs.set]
                  /\ UNCHANGED err
    /\ UNCHANGED <<cfg, files, idx, set, operation, diffAB, diffBA,
                   extract, opened, out, doc, created, exit, sink, wfail>>

\* fileToSet that returns the set without the deferred Close of lines 105-109
ReturnSetLeavesOpen(f) ==
    /\ pc = "scan" \o f
    /\ idx = Len(files[f])
    /\ IF f = "A"
       THEN setA' = set /\ pc' = "openB" /\ UNCHANGED setB
       ELSE setB' = set /\ pc' = "compute" /\ UNCHANGED setA
    /\ refs' = [refs EXCEPT !["set" \o f] = refs.set]
    /\ UNCHANGED <<cfg, files, idx, set, operation, diffAB, diffBA, extract,
                   env, opened, err, out, doc, created, exit, resources>>

\* fileToSet, lines 151-154, and its caller, lines 429-436: at the end of the
\* input the set is returned and the deferred Close runs
ReturnSet(f) ==
    /\ pc = "scan" \o f
    /\ idx = Len(files[f])
    /\ handles' = handles \ {f}
    /\ \E ok \in CallOutcomes(env) :
          /\ env' = [env EXCEPT !.close[f] = ok]
          /\ logged' = Closed(f, ok)
    /\ IF f = "A"
       THEN setA' = set /\ pc' = "openB" /\ UNCHANGED setB
       ELSE setB' = set /\ pc' = "compute" /\ UNCHANGED setA
    /\ refs' = [refs EXCEPT !["set" \o f] = refs.set]
    /\ UNCHANGED <<cfg, files, idx, set, operation, diffAB, diffBA,
                   extract, opened, err, out, doc, created, exit, sink, wfail>>

OpenA == Open("A")
ScanLineA == ScanLine("A")
ReturnSetA == ReturnSet("A")
OpenB == Open("B")
ScanLineB == ScanLine("B")
ReturnSetB == ReturnSet("B")

\* SetOperation with "if !cfg.pipe" of line 464 around both assignments of the
\* default case
SetOperationPipeSkipsAB(A, B, fl, pipeMode) ==
    IF fl.intersection
    THEN [operation |-> "intersection", diffAB |-> HsIntersection(A, B), diffBA |-> {}]
    ELSE IF fl.union
    THEN [operation |-> "union", diffAB |-> HsUnion(A, B), diffBA |-> {}]
    ELSE IF fl.symmetricDifference
    THEN [operation |-> "symmetric-difference",
          diffAB |-> HsUnion(HsDifference(A, B), HsDifference(B, A)),
          diffBA |-> {}]
    ELSE [operation |-> "difference",
          diffAB |-> IF ~pipeMode THEN HsDifference(A, B) ELSE {},
          diffBA |-> IF ~pipeMode THEN HsDifference(B, A) ELSE {}]

\* SetOperation without "if !cfg.pipe" of line 464
SetOperationAlwaysBA(A, B, fl, pipeMode) ==
    IF fl.intersection
    THEN [operation |-> "intersection", diffAB |-> HsIntersection(A, B), diffBA |-> {}]
    ELSE IF fl.union
    THEN [operation |-> "union", diffAB |-> HsUnion(A, B), diffBA |-> {}]
    ELSE IF fl.symmetricDifference
    THEN [operation |-> "symmetric-difference",
          diffAB |-> HsUnion(HsDifference(A, B), HsDifference(B, A)),
          diffBA |-> {}]
    ELSE [operation |-> "difference",
          diffAB |-> HsDifference(A, B),
          diffBA |-> HsDifference(B, A)]

\* SetOperation with the calls of lines 454 and 457 exchanged
SetOperationSwapped(A, B, fl, pipeMode) ==
    IF fl.intersection
    THEN [operation |-> "intersection", diffAB |-> HsUnion(A, B), diffBA |-> {}]
    ELSE IF fl.union
    THEN [operation |-> "union", diffAB |-> HsIntersection(A, B), diffBA |-> {}]
    ELSE IF fl.symmetricDifference
    THEN [operation |-> "symmetric-difference",
          diffAB |-> HsUnion(HsDifference(A, B), HsDifference(B, A)),
          diffBA |-> {}]
    ELSE [operation |-> "difference",
          diffAB |-> HsDifference(A, B),
          diffBA |-> IF ~pipeMode THEN HsDifference(B, A) ELSE {}]

\* SetOperation with line 460 cut after the first Difference
SetOperationOneSided(A, B, fl, pipeMode) ==
    IF fl.intersection
    THEN [operation |-> "intersection", diffAB |-> HsIntersection(A, B), diffBA |-> {}]
    ELSE IF fl.union
    THEN [operation |-> "union", diffAB |-> HsUnion(A, B), diffBA |-> {}]
    ELSE IF fl.symmetricDifference
    THEN [operation |-> "symmetric-difference",
          diffAB |-> HsDifference(A, B),
          diffBA |-> {}]
    ELSE [operation |-> "difference",
          diffAB |-> HsDifference(A, B),
          diffBA |-> IF ~pipeMode THEN HsDifference(B, A) ELSE {}]

\* lines 438-467: the results start with two empty sets, then the switch on
\* the operation flags fills them
SetOperation(A, B, fl, pipeMode) ==
    IF fl.intersection
    THEN [operation |-> "intersection", diffAB |-> HsIntersection(A, B), diffBA |-> {}]
    ELSE IF fl.union
    THEN [operation |-> "union", diffAB |-> HsUnion(A, B), diffBA |-> {}]
    ELSE IF fl.symmetricDifference
    THEN [operation |-> "symmetric-difference",
          diffAB |-> HsUnion(HsDifference(A, B), HsDifference(B, A)),
          diffBA |-> {}]
    ELSE [operation |-> "difference",
          diffAB |-> HsDifference(A, B),
          diffBA |-> IF ~pipeMode THEN HsDifference(B, A) ELSE {}]

\* SetObjects with a Union that adds to its receiver and returns it
SetObjectsInPlace(r, fl, pipeMode) ==
    LET rs == New(New(r, "diffAB"), "diffBA")
    IN  IF fl.intersection THEN New(rs, "diffAB")
        ELSE IF fl.union THEN [rs EXCEPT !.diffAB = rs.setA]
        ELSE IF fl.symmetricDifference
        THEN [rs EXCEPT !.diffAB = rs.next, !.next = rs.next + 2]
        ELSE IF pipeMode THEN New(rs, "diffAB")
        ELSE New(New(rs, "diffAB"), "diffBA")

\* lines 438-467, the set objects: two from hashset.New, then one from each
\* Intersection, Union and Difference, which all return a new set
SetObjects(r, fl, pipeMode) ==
    LET rs == New(New(r, "diffAB"), "diffBA")
    IN  IF fl.intersection THEN New(rs, "diffAB")
        ELSE IF fl.union THEN New(rs, "diffAB")
        ELSE IF fl.symmetricDifference
        THEN [rs EXCEPT !.diffAB = rs.next + 2, !.next = rs.next + 3]
        ELSE IF pipeMode THEN New(rs, "diffAB")
        ELSE New(New(rs, "diffAB"), "diffBA")

\* the operation flags are read where the switch is, lines 447-449
Compute ==
    /\ pc = "compute"
    /\ \E fl \in OpFlags :
          LET rs == SetOperation(setA, setB, fl, cfg.pipe)
          IN  /\ operation' = rs.operation
              /\ diffAB' = rs.diffAB
              /\ diffBA' = rs.diffBA
              /\ refs' = SetObjects(refs, fl, cfg.pipe)
    /\ pc' = "print"
    /\ UNCHANGED <<cfg, files, idx, set, setA, setB,
                   extract, env, opened, err, out, doc, created, exit, resources>>

\* the two inputs are the two arguments of the command
Path(f) == f \o ".txt"

\* rs, lines 438-443, as the switch of lines 451-467 has left it
Results ==
    [pathA |-> Path("A"), pathB |-> Path("B"), setA |-> setA, setB |-> setB,
     operation |-> operation, diffAB |-> diffAB, diffBA |-> diffBA]

\* printSet without the deferred Close of lines 259-263: the output file is
\* left open
SinkAfterLeftOpen(c, made) ==
    IF c.output = "" THEN "stdout" ELSE IF made THEN "file" ELSE "none"

\* lines 254-266: the sink once printSet has returned: the output file is
\* closed by the deferred Close, os.Stdout is left as it is
SinkAfter(c, made) ==
    IF c.output = "" THEN "stdout"
    ELSE IF made THEN "closed"
    ELSE "none"

\* line 296: in stats mode printSet calls r.setA.Intersection(r.setB), which
\* returns a new set
StatsObjects(r, c, resolved) ==
    IF resolved /\ c.format \notin {"json", "csv"} /\ ~c.count /\ c.stats
    THEN New(r, "overlap")
    ELSE r

\* a call of printSet, from the resolution of the sink to its return
PrintSet ==
    /\ pc = "print"
    /\ \E creates \in IF cfg.output = "" THEN {TRUE} ELSE CallOutcomes(env) :
       \E writes \in IF creates THEN CallOutcomes(env) ELSE {TRUE} :
       \E closes \in IF creates /\ cfg.output # "" THEN CallOutcomes(env) ELSE {TRUE} :
          LET p == printSet(Results, cfg, creates, writes)
          IN  /\ env' = [env EXCEPT !.create = creates, !.write = writes,
                                    !.close.sink = closes]
              /\ err' = p.err
              /\ out' = p.out
              /\ doc' = p.doc
              /\ created' = p.created
              /\ wfail' = p.wfail
              /\ sink' = SinkAfter(cfg, p.created)
              /\ logged' = IF p.created THEN Closed("sink", closes) ELSE logged
              /\ refs' = StatsObjects(refs, cfg, creates)
    /\ pc' = "printed"
    /\ UNCHANGED <<cfg, files, idx, set, setA, setB, operation, diffAB, diffBA,
                   extract, opened, exit, handles>>

\* lines 471-479: RunE returns the error of printSet, or a DiffFoundError
\* when the results have differences, or nil
Return ==
    /\ pc = "printed"
    /\ err' = IF err # "" THEN err
              ELSE IF hasDifferences(Results) THEN "differences found"
              ELSE ""
    /\ pc' = "execute"
    /\ UNCHANGED <<cfg, files, idx, set, setA, setB, operation, diffAB, diffBA,
                   extract, env, opened, out, doc, created, exit, resources, refs>>

\* Execute, lines 485-496: the process exits with the code of what RunE
\* returned
Execute ==
    /\ pc = "execute"
    /\ exit' = {ExitCode(err)}
    /\ pc' = "done"
    /\ UNCHANGED <<cfg, files, idx, set, setA, setB, operation, diffAB, diffBA,
                   extract, env, opened, err, out, doc, created, resources, refs>>

Next ==
    \/ NewConfig
    \/ OpenA
    \/ ScanLineA
    \/ ReturnSetA
    \/ OpenB
    \/ ScanLineB
    \/ ReturnSetB
    \/ Compute
    \/ PrintSet
    \/ Return
    \/ Execute

Spec == Init /\ [][Next]_vars

\* a whole run in an environment that may fail
SpecRun == InitRun /\ [][Next]_vars

\* the reporter alone
NextPrint ==
    \/ Compute
    \/ PrintSet

SpecPrint == InitPrint /\ [][NextPrint]_vars

\* fileToSet alone, on input A
NextNorm ==
    \/ OpenA
    \/ ScanLineA
    \/ ReturnSetA

SpecNorm == InitNorm /\ [][NextNorm]_vars

\* fileToSet alone, on an input of blank lines
SpecBlank == InitBlank /\ [][NextNorm]_vars

SpecCase == InitCase /\ [][NextNorm]_vars

(***************************************************************************)
(* The earlier fileToSet, a method of fileSet that fills fs.set.           *)
(***************************************************************************)
\* the flag variables caseSensitive, delimiter and ignoreFQDN of the earlier
\* implementation
OldConfigs ==
    [caseSensitive : BOOLEAN, delimiter : {<<",">>, <<"A">>}, extract : {NilRegexp},
     ignoreFQDN : BOOLEAN, pipe : {FALSE},
     trimPrefix : {<<>>}, trimSuffix : {<<>>},
     format : {"text"}, count : {FALSE}, stats : {FALSE}, output : {""}]

\* the raw lines of the inputs of SpecOld
OldLines == {<<"a">>, <<"A">>, <<"a", ",", "b">>, <<"a", ".", "b">>, <<" ">>}

\* the body of the scan loop: a blank line is passed over; any other line is
\* folded, cut at the delimiter and at the first dot, and added as it is
OldAddLine(s, raw, c) ==
    IF Len(TrimSpace(raw)) = 0 THEN s
    ELSE LET l1 == IF ~c.caseSensitive THEN ToLower(raw) ELSE raw
             l2 == IF Contains(l1, c.delimiter) THEN SplitFirst(l1, c.delimiter) ELSE l1
             l3 == IF c.ignoreFQDN THEN SplitFirst(l2, <<".">>) ELSE l2
         IN  s \cup {l3}

\* fs.fileToSet() is called on a file set whose set is empty
InitOld ==
    /\ cfg \in OldConfigs
    /\ files \in [A : FilesOf(OldLines, MaxLines), B : {<<>>}]
    /\ pc = "oldOpen"
    /\ idx = 0
    /\ set = {}
    /\ setA = {}
    /\ setB = {}
    /\ operation = ""
    /\ diffAB = {}
    /\ diffBA = {}
    /\ extract = ""
    /\ env = EnvFaulty
    /\ Untouched

\* the file is looked for, opened, and closed at once
OldOpen ==
    /\ pc = "oldOpen"
    /\ \E st \in StatOutcomes(env) : \E ok \in CallOutcomes(env) :
          IF st = "missing"
          THEN /\ env' = [env EXCEPT !.stat.A = st]
               /\ err' = "file does not exist"
               /\ pc' = "oldDone"
               /\ UNCHANGED <<opened, logged>>
          ELSE IF st = "unreadable"
          THEN /\ env' = [env EXCEPT !.stat.A = st]
               /\ err' = "failed to open file"
               /\ pc' = "oldDone"
               /\ UNCHANGED <<opened, logged>>
          ELSE /\ env' = [env EXCEPT !.stat.A = st, !.close.A = ok]
               /\ opened' = opened \cup {"A"}
               /\ logged' = Closed("A", ok)
               /\ err' = IF ok THEN "" ELSE "failed to close file"
               /\ pc' = IF ok THEN "oldScan" ELSE "oldDone"
    /\ handles' = {}
    /\ UNCHANGED <<cfg, files, idx, set, setA, setB, operation, diffAB, diffBA,
                   extract, out, doc, created, exit, sink, wfail, refs>>

\* the scan loop and the return: the scanner reads through the handle, and
\* gets a line only if the handle is open; when Scan returns false the loop
\* ends and nil is returned, the error of the scanner unread
OldScan ==
    /\ pc = "oldScan"
    /\ IF "A" \in handles /\ idx < Len(files.A)
       THEN /\ idx' = idx + 1
            /\ set' = OldAddLine(set, files.A[idx + 1], cfg)
            /\ UNCHANGED <<pc, setA>>
       ELSE /\ setA' = set
            /\ pc' = "oldDone"
            /\ UNCHANGED <<idx, set>>
    /\ UNCHANGED <<cfg, files, setB, operation, diffAB, diffBA, extract, env,
                   opened, err, out, doc, created, exit, resources, refs>>

NextOld ==
    \/ OldOpen
    \/ OldScan

SpecOld == InitOld /\ [][NextOld]_vars


(***************************************************************************)
(* Reference definitions for the properties below. They state what a       *)
(* result must be, not how fileToSet computes it.                          *)
(***************************************************************************)
RECURSIVE StripLeft(_)
StripLeft(s) == IF s # <<>> /\ s[1] = " " THEN StripLeft(Tail(s)) ELSE s

RECURSIVE StripRight(_)
StripRight(s) ==
    IF s # <<>> /\ s[Len(s)] = " " THEN StripRight(SubSeq(s, 1, Len(s) - 1)) ELSE s

\* s without its surrounding white space
Stripped(s) == StripRight(StripLeft(s))

\* s with every upper-case letter replaced by its lower-case letter
Folded(s) == [i \in 1..Len(s) |-> IF s[i] = "A" THEN "a" ELSE s[i]]

\* sep occurs in s right after the first n characters
OccursAfter(s, sep, n) ==
    /\ n + Len(sep) <= Len(s)
    /\ \A k \in 1..Len(sep) : s[n + k] = sep[k]

Occurs(s, sep) == \E n \in 0..Len(s) : OccursAfter(s, sep, n)

\* the part of s before the first occurrence of sep (sep occurs in s)
Before(s, sep) ==
    LET n == CHOOSE n \in 0..Len(s) :
                 /\ OccursAfter(s, sep, n)
                 /\ \A m \in 0..(n - 1) : ~OccursAfter(s, sep, m)
    IN  SubSeq(s, 1, n)

\* the text the pattern re takes from s: the first capture group of the
\* leftmost match when re has a group, the whole leftmost match otherwise
\* (re matches s)
Matches(re, s) == \E i \in 1..(Len(s) - Len(re.elems) + 1) : MatchAt(re, s, i)

Extracted(re, s) ==
    LET i == CHOOSE i \in 1..(Len(s) - Len(re.elems) + 1) :
                 /\ MatchAt(re, s, i)
                 /\ \A j \in 1..(i - 1) : ~MatchAt(re, s, j)
    IN  IF re.groups >= 1
        THEN SubSeq(s, i + re.gfrom - 1, i + re.gto - 1)
        ELSE SubSeq(s, i, i + Len(re.elems) - 1)

\* steps (4) to (7) of the sequence: the FQDN cut, the prefix, the suffix,
\* and the test for an empty value; the result is a set of at most one token
AfterCut(v, c) ==
    LET v4 == IF c.ignoreFQDN /\ Occurs(v, <<".">>)
              THEN Stripped(Before(v, <<".">>)) ELSE v
        v5 == IF HasPrefix(v4, c.trimPrefix)
              THEN SubSeq(v4, Len(c.trimPrefix) + 1, Len(v4)) ELSE v4
        v6 == IF HasSuffix(v5, c.trimSuffix)
              THEN SubSeq(v5, 1, Len(v5) - Len(c.trimSuffix)) ELSE v5
    IN  IF v6 = <<>> THEN {} ELSE {v6}

\* the fixed sequence, with the delimiter step as cutAt(line)
Sequence(raw, c, cutAt(_)) ==
    LET v1 == Stripped(raw)
        v2 == IF c.caseSensitive THEN v1 ELSE Folded(v1)
    IN  IF v1 = <<>> THEN {}
        ELSE IF c.extract.set
        THEN IF Matches(c.extract, v2)
             THEN AfterCut(Stripped(Extracted(c.extract, v2)), c)
             ELSE {}
        ELSE AfterCut(cutAt(v2), c)

\* the delimiter step as the sequence words it: the part before the first
\* occurrence of the delimiter, trimmed
CutBefore(c, v) ==
    IF Occurs(v, c.delimiter) THEN Stripped(Before(v, c.delimiter)) ELSE v

\* the delimiter step with the empty delimiter told apart: the first field
\* of the line split at the delimiter, which for an empty delimiter is the
\* first character of the line
CutFirstField(c, v) ==
    IF c.delimiter = <<>> THEN Stripped(SubSeq(v, 1, 1)) ELSE CutBefore(c, v)

\* fileToSet has scanned the one line of a one-line input A
ScannedOne == pc = "scanA" /\ idx = 1 /\ Len(files.A) = 1

(***************************************************************************)
(* C1, as stated: the set built from one line is what the fixed sequence   *)
(* gives, the delimiter step keeping the part before the delimiter's first *)
(* occurrence. It fails for the empty delimiter.                           *)
(***************************************************************************)
C1_SequenceAsStated ==
    ScannedOne =>
        set = Sequence(files.A[1], cfg, LAMBDA v : CutBefore(cfg, v))

(***************************************************************************)
(* C1, amended: the set built from one line is what the fixed sequence     *)
(* gives when the delimiter step keeps the first field of the line split   *)
(* at the delimiter: the part before its first occurrence, or the first    *)
(* character of the line when the delimiter is empty.                      *)
(***************************************************************************)
C1_Sequence ==
    ScannedOne =>
        set = Sequence(files.A[1], cfg, LAMBDA v : CutFirstField(cfg, v))

\* " Ab," under case folding, the comma, and the prefix "a": every step acts
C1_Witness ==
    /\ ScannedOne
    /\ files.A[1] = <<"A", "b", ",">>
    /\ ~cfg.caseSensitive
    /\ ~cfg.extract.set
    /\ cfg.delimiter = <<",">>
    /\ cfg.trimPrefix = <<"a">>
    /\ set = {<<"b">>}

(***************************************************************************)
(* C3: no token of a set built by fileToSet is empty or white space only.  *)
(***************************************************************************)
C3_NoBlankToken ==
    \A t \in set \cup setA \cup setB :
        t # <<>> /\ \E i \in 1..Len(t) : ~IsSpace(t[i])

(***************************************************************************)
(* C5, as stated: a token that fileToSet produced normalizes to itself     *)
(* under the same configuration.                                           *)
(***************************************************************************)
C5_IdempotentAsStated ==
    ScannedOne => \A t \in set : NormalizeLine(t, cfg) = Token(t)

\* no extraction pattern, no trimPrefix and no trimSuffix
CutsOnly(c) == ~c.extract.set /\ c.trimPrefix = <<>> /\ c.trimSuffix = <<>>

(***************************************************************************)
(* C5, amended: when no extraction pattern, trimPrefix or trimSuffix is    *)
(* configured, a token that fileToSet produced normalizes to itself under  *)
(* the same configuration.                                                 *)
(***************************************************************************)
C5_Idempotent ==
    ScannedOne /\ CutsOnly(cfg) =>
        \A t \in set : NormalizeLine(t, cfg) = Token(t)

\* a token that differs from its line
C5_Witness ==
    /\ ScannedOne
    /\ CutsOnly(cfg)
    /\ cfg.ignoreFQDN
    /\ files.A[1] = <<"A", " ", ".">>
    /\ set = {<<"a">>}

(***************************************************************************)
(* C9: with an extraction pattern, a line gives a token only if the        *)
(* pattern matches the trimmed, case-folded line; the value is the first   *)
(* capture group if the pattern has one and the whole match otherwise,     *)
(* trimmed, and goes on to the FQDN and prefix/suffix steps without the    *)
(* delimiter cut; a line that does not match gives nothing.                *)
(***************************************************************************)
C9_Extraction ==
    ScannedOne /\ cfg.extract.set =>
        LET v1 == Stripped(files.A[1])
            v2 == IF cfg.caseSensitive THEN v1 ELSE Folded(v1)
        IN  IF v1 # <<>> /\ Matches(cfg.extract, v2)
            THEN set = AfterCut(Stripped(Extracted(cfg.extract, v2)), cfg)
            ELSE set = {}

\* the whole match of ".," keeps its comma although the comma is the delimiter
C9_Witness ==
    /\ ScannedOne
    /\ cfg.extract = ReComma
    /\ cfg.delimiter = <<",">>
    /\ files.A[1] = <<"b", ",", "a">>
    /\ set = {<<"b", ",">>}

(***************************************************************************)
(* Properties of the set operations (Spec).                                *)
(***************************************************************************)
\* RunE has computed the operation
Computed == pc = "print"

\* the flags that select an operation
FlagsOf(op) ==
    [intersection |-> op = "intersection", union |-> op = "union",
     symmetricDifference |-> op = "symmetric-difference"]

\* the primary result of op on inputs X and Y: the one this run computed when
\* op is its operation and X, Y its inputs in this order, else the one a run
\* on X and Y computes
Primary(op, X, Y) ==
    IF op = operation /\ X = setA /\ Y = setB
    THEN diffAB
    ELSE SetOperation(X, Y, FlagsOf(op), cfg.pipe).diffAB

(***************************************************************************)
(* C2: the primary result is the intersection, the union, the tokens in    *)
(* exactly one of A and B, or A minus B, as the operation says; the last   *)
(* whatever pipe is.                                                       *)
(***************************************************************************)
C2_PrimaryResult ==
    Computed =>
        /\ operation \in {"intersection", "union", "symmetric-difference", "difference"}
        /\ operation = "intersection" => diffAB = setA \cap setB
        /\ operation = "union" => diffAB = setA \cup setB
        /\ operation = "symmetric-difference" =>
               diffAB = {t \in setA \cup setB : (t \in setA) # (t \in setB)}
        /\ operation = "difference" => diffAB = setA \ setB

\* a difference in pipe mode with something on both sides
C2_Witness ==
    /\ Computed
    /\ operation = "difference"
    /\ cfg.pipe
    /\ diffAB # {}
    /\ diffAB # setA
    /\ setB \ setA # {}

(***************************************************************************)
(* C4: once the operation is computed, the secondary result is B minus A   *)
(* for a difference with pipe off and empty in every other case.           *)
(***************************************************************************)
C4_SecondaryResult ==
    Computed =>
        diffBA = IF operation = "difference" /\ ~cfg.pipe THEN setB \ setA ELSE {}

\* a difference in pipe mode whose B minus A is not empty, yet diffBA is
C4_Witness ==
    /\ Computed
    /\ operation = "difference"
    /\ cfg.pipe
    /\ setB \ setA # {}
    /\ diffBA = {}

(***************************************************************************)
(* C6: the union contains the intersection and is the union of A minus B,  *)
(* B minus A and the intersection, three pairwise disjoint sets.           *)
(***************************************************************************)
C6_Partition ==
    Computed =>
        LET U  == Primary("union", setA, setB)
            I  == Primary("intersection", setA, setB)
            AB == Primary("difference", setA, setB)
            BA == Primary("difference", setB, setA)
        IN  /\ I \subseteq U
            /\ U = AB \cup BA \cup I
            /\ AB \cap BA = {}
            /\ AB \cap I = {}
            /\ BA \cap I = {}

\* a computed union all three parts of which are inhabited
C6_Witness ==
    /\ Computed
    /\ operation = "union"
    /\ setA \ setB # {}
    /\ setB \ setA # {}
    /\ setA \cap setB # {}
    /\ Cardinality(diffAB) = 3

(***************************************************************************)
(* C7: the symmetric difference is the same with A and B exchanged; A      *)
(* minus B equals B minus A exactly when A = B, and then both are empty.   *)
(***************************************************************************)
C7_Commutativity ==
    Computed =>
        LET AB == Primary("difference", setA, setB)
            BA == Primary("difference", setB, setA)
        IN  /\ Primary("symmetric-difference", setA, setB)
                   = Primary("symmetric-difference", setB, setA)
            /\ (AB = BA) <=> (setA = setB)
            /\ setA = setB => AB = {} /\ BA = {}

\* a computed symmetric difference of two sets neither of which holds the other
C7_Witness ==
    /\ Computed
    /\ operation = "symmetric-difference"
    /\ setA \ setB # {}
    /\ setB \ setA # {}
    /\ diffAB = (setA \ setB) \cup (setB \ setA)

(***************************************************************************)
(* C8: two inputs that hold the same lines, in any order and any number of *)
(* times, give equal sets, and their difference is empty both ways.        *)
(***************************************************************************)
LinesOf(f) == {f[i] : i \in 1..Len(f)}

C8_SetsNotSequences ==
    LinesOf(files.A) = LinesOf(files.B) =>
        /\ pc \in {"compute", "print"} => setA = setB
        /\ Computed /\ operation = "difference" => diffAB = {} /\ diffBA = {}

\* the same two lines with different tokens, in opposite orders
C8_Witness ==
    /\ Computed
    /\ operation = "difference"
    /\ ~cfg.pipe
    /\ Len(files.A) = 2
    /\ Len(files.B) = 2
    /\ files.A[1] = files.B[2]
    /\ files.A[2] = files.B[1]
    /\ Cardinality(setA) = 2
    /\ diffAB = {}
    /\ diffBA = {}

(***************************************************************************)
(* Case folding (SpecCase): input A holds two lines that differ in letter  *)
(* case at most.                                                           *)
(***************************************************************************)
\* fileToSet has returned the set of the two-line input A
ReturnedTwo == pc = "openB" /\ Len(files.A) = 2

\* the two lines are different spellings of a non-blank line
TwoSpellings == files.A[1] # files.A[2] /\ Stripped(files.A[1]) # <<>>

\* normalization leaves the line l whole but for white space and case: no
\* pattern, FQDN cut, prefix or suffix is configured and the delimiter does
\* not occur in l as it is searched
Whole(c, l) ==
    /\ Stripped(l) # <<>>
    /\ ~c.extract.set
    /\ ~c.ignoreFQDN
    /\ c.trimPrefix = <<>>
    /\ c.trimSuffix = <<>>
    /\ ~Occurs(IF c.caseSensitive THEN l ELSE Folded(l), c.delimiter)

Reported == pc = "printed" /\ err = "" /\ env.write

\* the formats of the lines of each mode
CountFormats == {"A-B: %d", "B-A: %d", "%d"}
StatsFormats ==
    {"File A: %d unique lines", "File B: %d unique lines", "Overlap: %d",
     "Overlap: %d (%.1f%% of A, %.1f%% of B)", "Only in A: %d", "Only in B: %d"}
HeaderFormats ==
    {"Intersection of %s and %s:", "Union of %s and %s:",
     "Difference of %s - %s:", "Symmetric difference of %s and %s:"}

\* every line of the output has one of these formats
AllLines(fmts) == \A i \in 1..Len(out) : out[i].fmt \in fmts

\* the modes whose output the sink holds
ModesWritten ==
    {m \in {"structured", "count", "stats", "text"} :
        CASE m = "structured" ->
                (doc # NoDoc /\ out = <<>>)
                    \/ (doc = NoDoc /\ out # <<>> /\ AllLines({"csv"}))
          [] m = "count" -> doc = NoDoc /\ out # <<>> /\ AllLines(CountFormats)
          [] m = "stats" -> doc = NoDoc /\ out # <<>> /\ AllLines(StatsFormats)
          [] m = "text" -> doc = NoDoc /\ AllLines(HeaderFormats \cup {"%s", ""})}

\* C11: the output printSet has produced is that of exactly one mode, the
\* first that matches of: json or csv format (whatever count, stats and pipe
\* are), count-only, stats, standard text.
C11_ModePrecedence ==
    Reported =>
        ModesWritten =
            {IF cfg.format \in {"json", "csv"} THEN "structured"
             ELSE IF cfg.count THEN "count"
             ELSE IF cfg.stats THEN "stats"
             ELSE "text"}

\* a json document was written although count, stats and pipe were all set
C11_Witness ==
    /\ Reported
    /\ cfg.format = "json" /\ cfg.count /\ cfg.stats /\ cfg.pipe
    /\ doc # NoDoc
    /\ doc.operation = "union"

\* the primary result of each operation on the sets X and Y
PrimaryOf(op, X, Y) ==
    CASE op = "intersection" -> X \cap Y
      [] op = "union" -> X \cup Y
      [] op = "symmetric-difference" -> (X \ Y) \cup (Y \ X)
      [] op = "difference" -> X \ Y

\* the secondary result of the difference: the tokens of B that A lacks
Secondary(X, Y) == Y \ X

\* the lines are the tokens of S, each once, in ascending byte order
IsListing(lines, S) ==
    /\ Len(lines) = Cardinality(S)
    /\ \A i \in 1..Len(lines) : lines[i].fmt = "%s" /\ lines[i].tok \in S
    /\ \A i \in 1..Len(lines) : \A j \in 1..Len(lines) :
          i < j => Less(lines[i].tok, lines[j].tok)

\* the header of each operation
HeaderOf(op) ==
    CASE op = "intersection" -> "Intersection of %s and %s:"
      [] op = "union" -> "Union of %s and %s:"
      [] op = "difference" -> "Difference of %s - %s:"
      [] op = "symmetric-difference" -> "Symmetric difference of %s and %s:"

\* the standard text mode has printed the results of one of the operations
TextReported ==
    /\ Reported
    /\ cfg.format \notin {"json", "csv"} /\ ~cfg.count /\ ~cfg.stats
    /\ operation \in Operations

\* C12: in standard text mode with pipe off the output is one header of the
\* operation that names both sources, then the primary tokens one per line
\* in ascending order, and for difference an empty line, the header of the
\* reverse direction and the secondary tokens in ascending order; with pipe
\* on the output is the sorted primary tokens alone, whatever the operation.
C12_TextMode ==
    TextReported =>
        LET P == PrimaryOf(operation, setA, setB)
            S == Secondary(setA, setB)
            n == Cardinality(P)
        IN  IF cfg.pipe
            THEN IsListing(out, P)
            ELSE /\ Len(out) >= n + 1
                 /\ out[1] = Line(HeaderOf(operation), <<Path("A"), Path("B")>>, <<>>, <<>>)
                 /\ IsListing(SubSeq(out, 2, n + 1), P)
                 /\ IF operation = "difference"
                    THEN /\ Len(out) = n + 3 + Cardinality(S)
                         /\ out[n + 2] = Line("", <<>>, <<>>, <<>>)
                         /\ out[n + 3] = Line("Difference of %s - %s:",
                                              <<Path("B"), Path("A")>>, <<>>, <<>>)
                         /\ IsListing(SubSeq(out, n + 4, Len(out)), S)
                    ELSE Len(out) = n + 1

\* a difference was printed with two primary tokens and a secondary one
C12_Witness ==
    /\ TextReported
    /\ ~cfg.pipe
    /\ operation = "difference"
    /\ Cardinality(diffAB) = 2
    /\ Cardinality(setB \ setA) = 1
    /\ Len(out) = 6

\* the count mode has printed the results of one of the operations
CountReported ==
    /\ Reported
    /\ cfg.format \notin {"json", "csv"} /\ cfg.count
    /\ operation \in Operations

\* C13: in count-only mode the difference prints the two lines "A-B: n" and
\* "B-A: m", n the number of tokens of A that B lacks and m the number of
\* tokens of B that A lacks, whatever pipe is; every other operation prints
\* one line, the number of tokens of its primary result.
C13_CountMode ==
    CountReported =>
        IF operation = "difference"
        THEN out = <<Line("A-B: %d", <<>>, <<Cardinality(setA \ setB)>>, <<>>),
                     Line("B-A: %d", <<>>, <<Cardinality(setB \ setA)>>, <<>>)>>
        ELSE out = <<Line("%d", <<>>,
                          <<Cardinality(PrimaryOf(operation, setA, setB))>>, <<>>)>>

\* the stats mode has printed
StatsReported ==
    /\ Reported
    /\ cfg.format \notin {"json", "csv"} /\ ~cfg.count /\ cfg.stats

\* p tenths of a percent is overlap * 100 / size to one decimal
IsPercent(p, overlap, size) ==
    LET d == p * size - 1000 * overlap
    IN  2 * d <= size /\ 2 * (0 - d) <= size

\* C14: stats mode reports the sizes of A and of B, the overlap |A \cap B|,
\* "Only in A" = sizeA - overlap = |A \ B| and "Only in B" likewise, never
\* negative; the percentages overlap * 100 / size, to one decimal, are
\* printed exactly when both sizes are above 0, and otherwise the plain
\* overlap, which is then 0.
C14_StatsMode ==
    StatsReported =>
        LET sizeA == Cardinality(setA)
            sizeB == Cardinality(setB)
            overlap == Cardinality(setA \cap setB)
        IN  /\ Len(out) = 5
            /\ out[1] = Line("File A: %d unique lines", <<>>, <<sizeA>>, <<>>)
            /\ out[2] = Line("File B: %d unique lines", <<>>, <<sizeB>>, <<>>)
            /\ out[3].nums[1] = overlap
            /\ IF sizeA > 0 /\ sizeB > 0
               THEN /\ out[3].fmt = "Overlap: %d (%.1f%% of A, %.1f%% of B)"
                    /\ Len(out[3].nums) = 3
                    /\ IsPercent(out[3].nums[2], overlap, sizeA)
                    /\ IsPercent(out[3].nums[3], overlap, sizeB)
               ELSE out[3] = Line("Overlap: %d", <<>>, <<0>>, <<>>)
            /\ out[4] = Line("Only in A: %d", <<>>, <<sizeA - overlap>>, <<>>)
            /\ out[5] = Line("Only in B: %d", <<>>, <<sizeB - overlap>>, <<>>)
            /\ sizeA - overlap = Cardinality(setA \ setB)
            /\ sizeB - overlap = Cardinality(setB \ setA)
            /\ sizeA - overlap >= 0 /\ sizeB - overlap >= 0

\* the stats of three tokens against two of them: 66.7% of A, 100.0% of B
C14_Witness ==
    /\ StatsReported
    /\ Cardinality(setA) = 3
    /\ Cardinality(setB) = 2
    /\ out[3] = Line("Overlap: %d (%.1f%% of A, %.1f%% of B)", <<>>,
                     <<2, 667, 1000>>, <<>>)
    /\ out[4].nums = <<1>>

\* the json mode has printed the results of one of the operations
JSONReported ==
    /\ Reported
    /\ cfg.format = "json"
    /\ operation \in Operations

\* the result set a key of the JSON document stands for
ResultSet(k) == IF k = "B-A" THEN diffBA ELSE diffAB

\* the list holds the tokens of S, each once, in ascending byte order
IsSortedList(list, S) ==
    /\ Len(list) = Cardinality(S)
    /\ \A i \in 1..Len(list) : list[i] \in S
    /\ \A i \in 1..Len(list) : \A j \in 1..Len(list) :
          i < j => Less(list[i], list[j])

\* C15: in json mode the maps results and counts have the same keys, "A-B"
\* and "B-A" for difference and the name of the operation otherwise; under
\* each key results holds the sorted list of the tokens of that result set,
\* an empty list when the set is empty, and counts holds the length of the
\* list.
C15_JSONMode ==
    JSONReported =>
        LET keys == IF operation = "difference" THEN {"A-B", "B-A"} ELSE {operation}
        IN  /\ DOMAIN doc.results = keys
            /\ DOMAIN doc.counts = keys
            /\ \A k \in keys :
                  /\ ~doc.results[k].null
                  /\ IsSortedList(doc.results[k].list, ResultSet(k))
                  /\ doc.counts[k] = Len(doc.results[k].list)

\* C16: printSet returns an error whenever the operation is none of
\* intersection, union, difference and symmetric-difference, in every output
\* mode and with pipe on or off.
C16_InvalidOperation ==
    (pc = "printed" /\ operation \notin Operations) => err # ""


(***************************************************************************)
(* Errors and the exit status (SpecRun).                                   *)
(***************************************************************************)
\* the run is over: RunE has returned, or the process has exited
Returned == pc \in {"execute", "done"}
Exited == pc = "done"

\* --extract is given and does not compile
BadPattern == extract = "a("

\* the input holds a line beyond the limit of the scanner
HasLongLine(f) == \E i \in 1..Len(files[f]) : files[f][i] = LongLine

\* the input can be read to its end
Readable(f) == env.stat[f] = "ok" /\ ~HasLongLine(f)

\* the sink cannot be made
NoSink == cfg.output # "" /\ ~env.create

\* nothing has reached the sink
NothingWritten == out = <<>> /\ doc = NoDoc /\ ~created

\* C17: the exit status is 2 exactly when the configuration, the reading of
\* an input or the reporting returned an error; otherwise 1 exactly when the
\* primary result is not empty or the operation is difference and the
\* secondary result is not empty; otherwise 0.
C17_ExitStatus ==
    Exited =>
        LET failed == err \notin {"", "differences found"}
            differs == diffAB # {} \/ (operation = "difference" /\ diffBA # {})
        IN  /\ exit = {IF failed THEN 2 ELSE IF differs THEN 1 ELSE 0}
            /\ (BadPattern \/ ~Readable("A") \/ ~Readable("B") \/ NoSink) => failed
            /\ (~BadPattern /\ Readable("A") /\ Readable("B") /\ ~NoSink /\ env.write)
                   => ~failed

\* a difference whose primary result is empty and whose secondary is not
\* has exited with 1
C17_Witness ==
    /\ Exited
    /\ exit = {1}
    /\ operation = "difference"
    /\ diffAB = {}
    /\ diffBA # {}

\* C18: a pattern that does not compile ends the run with the error
\* "invalid extract regex" before an input is opened or a line processed,
\* and nothing is written to the sink.
C18_InvalidPattern ==
    BadPattern =>
        /\ pc \in {"start", "execute", "done"}
        /\ opened = {} /\ idx = 0 /\ set = {}
        /\ NothingWritten
        /\ Returned => err = "invalid extract regex"
        /\ Exited => exit = {2}

\* a run on two readable inputs with lines has ended on the pattern
C18_Witness ==
    /\ Exited
    /\ BadPattern
    /\ err = "invalid extract regex"
    /\ Readable("A") /\ Len(files.A) > 0
    /\ Readable("B") /\ Len(files.B) > 0

\* C19: for a path at which there is no file fileToSet returns the error
\* "file does not exist" and no set, and opens and reads nothing; no other
\* failure gives this error; RunE puts "file A" or "file B" in front.
C19_MissingFile ==
    /\ \A f \in {"A", "B"} : env.stat[f] = "missing" => f \notin opened
    /\ (Returned /\ ~BadPattern /\ env.stat.A = "missing") =>
           /\ err = "file A: file does not exist"
           /\ opened = {} /\ set = {} /\ setA = {} /\ idx = 0
    /\ (Returned /\ ~BadPattern /\ Readable("A") /\ env.stat.B = "missing") =>
           /\ err = "file B: file does not exist"
           /\ opened = {"A"} /\ setB = {} /\ set = setA
    /\ \A f \in {"A", "B"} :
           err = FileError(f, "file does not exist") => env.stat[f] = "missing"

\* input A was read into a set and input B is missing
C19_Witness ==
    /\ Exited
    /\ err = "file B: file does not exist"
    /\ setA # {}
    /\ exit = {2}

\* C20: when a line of an input is longer than the limit of the scanner,
\* fileToSet returns an error and no set, neither of the lines before it nor
\* of a part of it, and the run ends with the error status and has written
\* no result.
C20_LongLine ==
    /\ (Returned /\ ~BadPattern /\ env.stat.A = "ok" /\ HasLongLine("A")) =>
           /\ err = "file A: failed to scan input"
           /\ setA = {} /\ NothingWritten
    /\ (Returned /\ ~BadPattern /\ Readable("A") /\ env.stat.B = "ok" /\ HasLongLine("B")) =>
           /\ err = "file B: failed to scan input"
           /\ setB = {} /\ NothingWritten
    /\ (HasLongLine("A") \/ HasLongLine("B")) =>
           /\ pc \notin {"compute", "print", "printed"}
           /\ Exited => exit = {2}

\* the line beyond the limit came after a line that gave a token
C20_Witness ==
    /\ Exited
    /\ err = "file A: failed to scan input"
    /\ set # {}
    /\ setA = {}
    /\ exit = {2}

-----------------------------------------------------------------------------
\* Handles of the inputs and of the sink

\* C21: an input file opened by fileToSet is closed on every exit path of
\* that call, the return of the set or a scan error: a handle is open only
\* while its own file is scanned, so at most one is open at any point, and
\* none is open when an input is opened, when the results are computed, when
\* the sink is created, or after RunE has returned.
C21_InputClosed ==
    /\ Cardinality(handles) <= 1
    /\ \A f \in handles : pc = "scan" \o f
    /\ pc \in {"openA", "openB"} => handles = {}
    /\ created => handles = {}
    /\ Returned => handles = {}

\* the sink has been created after both inputs were opened and closed
C21_Witness ==
    /\ pc = "printed"
    /\ created
    /\ opened = {"A", "B"}
    /\ handles = {}

\* C22 as stated: when printSet returns after resolving its sink, the sink
\* has been closed, be it the configured output file or standard output.
C22_SinkClosed ==
    (pc = "printed" /\ sink # "none") => sink = "closed"

\* C22: when printSet returns after creating the configured output file,
\* with or without an error, the file has been closed; standard output, when
\* it is the sink, is left open.
C22_FileSinkClosed ==
    /\ (pc = "printed" /\ created) => sink = "closed"
    /\ (pc = "printed" /\ cfg.output = "") => sink = "stdout"
    /\ (pc = "printed" /\ cfg.output # "" /\ ~created) =>
           sink = "none" /\ err = "failed to create output file"

\* printSet has returned an error after creating the output file
C22_Witness ==
    /\ pc = "printed"
    /\ created
    /\ err # ""
    /\ sink = "closed"

\* C23: when a write of result bytes to the sink fails, printSet returns an
\* error and the run ends in the error status, in every output mode.
C23_WriteFailure ==
    wfail =>
        /\ pc = "printed" => err # ""
        /\ Exited => exit = {2}

-----------------------------------------------------------------------------
\* Blank inputs

\* the line holds nothing but white space
IsBlank(l) == \A j \in 1..Len(l) : l[j] = " "

\* fileToSet has returned the set of input A
ReturnedA == pc = "openB"

\* C24: an input with no lines, or with nothing but empty and
\* white-space-only lines, gives an empty Line Set and no error, whatever the
\* configuration.
C24_BlankInput ==
    (ReturnedA /\ \A i \in 1..Len(files.A) : IsBlank(files.A[i])) =>
        /\ setA = {}
        /\ err = ""

\* fileToSet has returned from an input of two lines of white space
C24_Witness ==
    /\ ReturnedA
    /\ files.A = <<<<" ">>, <<" ", " ">>>>
    /\ setA = {}
    /\ err = ""

-----------------------------------------------------------------------------
\* Failures of Close

\* the tokens of the lines of input f under the configuration of the run
TokensOf(f) ==
    {NormalizeLine(files[f][i], cfg).tok :
        i \in {j \in 1..Len(files[f]) : NormalizeLine(files[f][j], cfg).ok}}

\* C25: a failure to close an input file or the output file is only
\* recorded: the set fileToSet returns is the set of the tokens of the
\* lines, printSet returns what it returns when the Close succeeds, and a run
\* in which nothing else failed exits with 0 or 1 as its results say.
C25_CloseFailure ==
    /\ ("A" \in logged /\ pc = "openB") => setA = TokensOf("A") /\ err = ""
    /\ ("B" \in logged /\ pc = "compute") => setB = TokensOf("B") /\ err = ""
    /\ ("sink" \in logged /\ pc = "printed") =>
           err = printSet(Results, cfg, TRUE, env.write).err
    /\ (Exited /\ logged # {} /\ ~BadPattern /\ Readable("A") /\ Readable("B")
           /\ ~NoSink /\ env.write) =>
           exit = {IF diffAB # {} \/ (operation = "difference" /\ diffBA # {})
                   THEN 1 ELSE 0}

\* every Close of a run has failed and the run has exited with 0
C25_Witness ==
    /\ Exited
    /\ logged = {"A", "B", "sink"}
    /\ setA # {}
    /\ exit = {0}

-----------------------------------------------------------------------------
\* Matching after case folding

\* what the whole line gives when nothing is extracted and nothing is cut
WholeLine(raw, c) ==
    LET l == StripAndTrim(ToLower(TrimSpace(raw)), c)
    IN  IF l = <<>> THEN {} ELSE {l}

\* C26: with case sensitivity off the extraction pattern and the delimiter
\* are matched against the lowercased line, so the pattern "A" matches no
\* line and every line is skipped, and the delimiter "A" never cuts a line:
\* the token is that of the whole lowercased line.
C26_MatchLowercased ==
    (ReturnedA /\ ~cfg.caseSensitive) =>
        /\ cfg.extract = ReUpper => setA = {}
        /\ (cfg.extract = NilRegexp /\ cfg.delimiter = <<"A">>) =>
               setA = WholeLine(files.A[1], cfg)

\* a line with the upper-case delimiter in its middle has been kept whole
C26_Witness ==
    /\ ReturnedA
    /\ ~cfg.caseSensitive
    /\ cfg.extract = NilRegexp
    /\ cfg.delimiter = <<"A">>
    /\ files.A = <<<<"b", "A", "b">>>>
    /\ setA = {<<"b", "a", "b">>}

-----------------------------------------------------------------------------
\* The order of the steps of a run

\* the steps that follow the reading of input A, and those that follow the
\* reading of input B
AfterA == {"openB", "scanB", "compute", "print", "printed"}
AfterB == {"compute", "print", "printed"}

\* C27: a run validates the configuration, reads A completely, reads B
\* completely, computes the results, then resolves the sink and writes, and
\* a step that fails ends it: B is opened only after A was read to its end,
\* the results are computed only from both complete sets, the output file
\* is created only after the results were computed, and after an invalid
\* pattern or a failed read nothing later has happened.
C27_StepOrder ==
    /\ pc \in {"openA", "scanA"} \cup AfterA => ~BadPattern
    /\ pc \in AfterA => Readable("A") /\ setA = TokensOf("A")
    /\ pc \in AfterB => Readable("B") /\ setB = TokensOf("B")
    /\ BadPattern => opened = {}
    /\ "B" \in opened => "A" \in opened /\ Readable("A") /\ setA = TokensOf("A")
    /\ operation # "" => opened = {"A", "B"} /\ Readable("A") /\ Readable("B")
    /\ (created \/ sink # "none" \/ out # <<>> \/ doc # NoDoc) => operation # ""
    /\ (BadPattern \/ ~Readable("A")) =>
           /\ "B" \notin opened /\ env.stat.B = "ok"
           /\ operation = "" /\ ~created /\ sink = "none" /\ NothingWritten
    /\ ~Readable("B") => operation = "" /\ ~created /\ sink = "none" /\ NothingWritten

\* the reading of B has failed after A was read, in a run with an output
\* file, and the file was not created
C27_Witness ==
    /\ Exited
    /\ setA # {}
    /\ opened = {"A", "B"}
    /\ err = "file B: failed to scan input"
    /\ cfg.output # ""
    /\ ~created
    /\ exit = {2}

-----------------------------------------------------------------------------
\* The inputs of the set operations

\* each set the operations have returned is an object of its own, neither
\* of the two inputs
ResultsDistinct ==
    \A v \in {"diffAB", "diffBA", "overlap"} :
        refs[v] # 0 => refs[v] \notin {refs.setA, refs.setB}

\* C28: computing the results of any operation and reporting them in any
\* mode, the intersection of the stats mode included, leaves both input
\* Line Sets as they were, and every result is a set distinct from both
\* inputs.
C28_InputsUnchanged ==
    [][/\ setA' = setA /\ setB' = setB
       /\ refs'.setA = refs.setA /\ refs'.setB = refs.setB
       /\ pc' \in {"print", "printed"} => ResultsDistinct']_vars

\* a union that holds what A holds has been reported in stats mode: the
\* result and the overlap are new sets
C28_Witness ==
    /\ pc = "printed"
    /\ operation = "union"
    /\ setA # {}
    /\ diffAB = setA
    /\ refs.overlap # 0
    /\ refs.diffAB # refs.setA

-----------------------------------------------------------------------------
\* The differences flag of the difference operation

\* C29: for the difference operation the run reports differences, exit
\* status 1 instead of 0, exactly when the two Line Sets are not equal,
\* whatever the pipe, count, stats and format settings.
C29_DifferencesFlag ==
    (Exited /\ operation = "difference" /\ exit # {2}) =>
        (exit = {1} <=> setA # setB)

-----------------------------------------------------------------------------
\* The earlier fileToSet

\* one entry for each non-blank line of input A, as the scan loop of the
\* earlier fileToSet makes it
OldTokensOf ==
    UNION {OldAddLine({}, files.A[i], cfg) : i \in 1..Len(files.A)}

\* C30: in the earlier fileToSet the handle of an existing readable file
\* stays open while its lines are scanned, and after a nil return the set
\* holds one entry for each distinct non-blank line, folded and cut as
\* configured.
C30_OldFileToSet ==
    /\ pc = "oldScan" => "A" \in handles
    /\ (pc = "oldDone" /\ err = "") => setA = OldTokensOf

=============================================================================
